---- MODULE Spec2Model ----
(***************************************************************************)
(* Model of src/src/index.ts (browser-tools MCP server): the four tool     *)
(* handlers, the module-level state they share (chromeProcess,             *)
(* networkRequests, cdpClient) and the collaborators they await (the debug *)
(* endpoint probe, the OS process table, the CDP connection and its event  *)
(* stream, the clock and the interval timer).                              *)
(*                                                                         *)
(* Every `await` of a handler is a suspension point: one action models the *)
(* synchronous run of a handler from the resumption of one await to the    *)
(* next await (or to its return).                                          *)
(***************************************************************************)
EXTENDS Integers, Naturals, Sequences, FiniteSets, TLC

(***************************************************************************)
(* Bounds of the model and constants of the program.                       *)
(***************************************************************************)
\* Number of StartDebugSession calls that may run (overlapping or in sequence).
NStart == 2
\* Largest number of targets a probe of the debug endpoint reports.
MaxTargets == 2
\* waitForChromeAccessible(15, 500): the retry count passed at index.ts:134.
MaxRetries == 15

\* Number of QueryTraffic / OpenUrl calls that may run (overlapping or in sequence).
NCalls == 2
\* Request identifiers, and distinct payloads of a request or response event.
NIds == 2
NVals == 3
\* Events delivered in one behaviour of SpecSession.
MaxEvents == 2
\* waitForNetworkSettle: the activity window and the setInterval period
\* (index.ts:652, 656), in milliseconds.
ActivityWindowMs == 1000
PollMs == 100
\* Granularity of the clock in SpecSettle, in milliseconds.
TickMs == 50

StartCalls == 1..NStart
Calls == 1..NCalls
\* The connection opened by call c is connection c (a call connects at most once).
Conns == 1..NCalls
RequestIds == 1..NIds
\* Payload of an event; 0 stands for "no such fields".
Vals == 1..NVals
\* Elapsed times are tracked up to the value they are compared with: time since
\* the last activity up to Horizon, time since the last timer tick up to PollMs.
Horizon == ActivityWindowMs
\* A probe of the debug endpoint: -1 when CDP.List throws, else the target count.
ProbeResults == (-1)..MaxTargets

VARIABLES
  \* ---- module-level state of index.ts
  chromeProcess,     \* 0 (null) or the pid held by the global handle
  \* ---- the OS, as seen by start-chrome-debug
  procState,         \* pid -> "none" | "alive" | "exited" | "failed"
  errorPending,      \* pids whose ChildProcess has an 'error' event queued
  hostCrashed,       \* an exception escaped a listener: the host process died
  \* ---- start-chrome-debug calls
  startPc,           \* call -> position in the handler
  retry,             \* call -> loop index i of waitForChromeAccessible
  startResult,       \* call -> "none" | "alreadyRunning" | "started" | "spawnFailed" | "timeout"
  reportedTargets,   \* call -> the target count printed in the result text
  \* ---- history of each start-chrome-debug call (not program state)
  spawnCount,        \* call -> number of spawn() calls of the browser
  pkillCount,        \* call -> number of pkill runs
  probesAfterSpawn,  \* call -> probes of the endpoint issued after its spawn
  observedTargets,   \* call -> count seen by the probe that found it reachable
  spawnOverlap,      \* a browser was spawned while an earlier spawned one was alive
  \* ---- module-level state of index.ts, continued
  cdpClient,         \* 0 (null) or the connection held by the global handle
  networkRequests,   \* requestId -> record (the Record Store)
  \* ---- CDP connections
  sock,              \* connection -> "none" | "open" | "closed" (_ws.readyState = 1 is open)
  netEnabled,        \* connection -> Network.enable has completed on it
  pageEnabled,       \* connection -> Page.enable has completed on it
  persist,           \* connection -> number of persistent subscriber pairs on it
  tempOn,            \* connection -> calls whose temporary subscriber pair is on it
  noops,             \* connection -> number of no-op subscriber pairs on it
  \* ---- query-network-traffic and open-url calls
  callOp,            \* call -> "none" | "query" | "open"
  callPc,            \* call -> position in the handler
  callResult,        \* call -> kind of the returned text
  cmdConn,           \* call -> connection its pending close / enable / navigate was sent on
  pageLoadRequests,  \* call -> requestId -> record (open-url's per-navigation map)
  sinceStamp,        \* call -> Date.now() - lastNetworkActivity
  sincePoll,         \* call -> time since its interval timer was set or last fired
  \* ---- history (not program state)
  obtained,          \* call -> socket state of the shared connection when it obtained it
  lastReq,           \* requestId -> payload of the last request event given to persistent subscribers
  lastResp,          \* requestId -> payload of the last response event given to them
  lastEventAge,      \* call -> time since the last event its temporary subscribers saw (-1: none)
  sinceStart,        \* call -> time since its temporary subscribers were registered
  eventInWait,       \* call -> that last event arrived while its settle wait was pending
  settleGap,         \* call -> lastEventAge at the moment its settle wait resolved (-2: not resolved)
  nEvents,           \* events delivered so far, counted up to MaxEvents
  deliveredOn,       \* connection -> requestIds of the events delivered on it
  \* ---- one run of the filter / sort / format pipeline of query-network-traffic
  qStore,            \* Array.from(networkRequests.values()): the records, in insertion order
  qArgs,             \* the arguments urlFilter, statusCode and limit
  qOut,              \* the list after sort and slice, the domain groups, the kind of text
  \* ---- one get-network-details call
  detail             \* its position, argument, record, fetch outcomes and result

startVars == <<chromeProcess, procState, errorPending, hostCrashed, startPc, retry,
               startResult, reportedTargets, spawnCount, pkillCount,
               probesAfterSpawn, observedTargets, spawnOverlap>>

sessionVars == <<cdpClient, networkRequests, sock, netEnabled, pageEnabled, persist,
                 tempOn, noops, callOp, callPc, callResult, cmdConn, pageLoadRequests,
                 sinceStamp, sincePoll, obtained, lastReq, lastResp, lastEventAge,
                 sinceStart, eventInWait, settleGap, nEvents, deliveredOn>>

toolVars == <<qStore, qArgs, qOut, detail>>

vars == <<startVars, sessionVars, toolVars>>

(***************************************************************************)
(* isChromeAccessible (index.ts:36-43): accessible iff CDP.List returned   *)
(* at least one target; a throw is caught and reported as not accessible.  *)
(***************************************************************************)
Accessible(r) == r > 0

\* `targets?.length || 0` (index.ts:94, 142): targets is undefined after a throw.
TargetCountText(r) == IF r > 0 THEN r ELSE 0

\* The host process is alive and no process.nextTick callback is queued: timer and
\* I/O callbacks (the resumption of an await) run only after the next-tick queue
\* has drained.
Running == ~hostCrashed /\ errorPending = {}

StartInit ==
  /\ chromeProcess = 0
  /\ procState = [p \in StartCalls |-> "none"]
  /\ errorPending = {}
  /\ hostCrashed = FALSE
  /\ startPc = [c \in StartCalls |-> "idle"]
  /\ retry = [c \in StartCalls |-> 0]
  /\ startResult = [c \in StartCalls |-> "none"]
  /\ reportedTargets = [c \in StartCalls |-> 0]
  /\ spawnCount = [c \in StartCalls |-> 0]
  /\ pkillCount = [c \in StartCalls |-> 0]
  /\ probesAfterSpawn = [c \in StartCalls |-> 0]
  /\ observedTargets = [c \in StartCalls |-> 0]
  /\ spawnOverlap = FALSE

\* A record of a key -> record map: present is FALSE for a key the map does not
\* hold; req and resp are the payloads of the request fields (url, method,
\* headers, postData, timestamp) and of the response fields (response,
\* responseTimestamp), 0 when the record has no such fields.
NoRecord == [present |-> FALSE, req |-> 0, resp |-> 0]

\* Before the pipeline has run: no list, no groups, no text.
NoOutput == [requests |-> <<>>, sortedDomains |-> <<>>, text |-> "none"]

\* Before get-network-details is called.
NoDetail == [pc |-> "idle", requestId |-> 0, request |-> NoRecord, conn |-> 0,
             responseBody |-> "none", postData |-> "none", result |-> "none"]

\* index.ts:18-20 and the state of the collaborators before any call.
SessionInit ==
  /\ cdpClient = 0
  /\ networkRequests = [id \in RequestIds |-> NoRecord]
  /\ sock = [k \in Conns |-> "none"]
  /\ netEnabled = [k \in Conns |-> FALSE]
  /\ pageEnabled = [k \in Conns |-> FALSE]
  /\ persist = [k \in Conns |-> 0]
  /\ tempOn = [k \in Conns |-> {}]
  /\ noops = [k \in Conns |-> 0]
  /\ callOp = [c \in Calls |-> "none"]
  /\ callPc = [c \in Calls |-> "idle"]
  /\ callResult = [c \in Calls |-> "none"]
  /\ cmdConn = [c \in Calls |-> 0]
  /\ pageLoadRequests = [c \in Calls |-> [id \in RequestIds |-> NoRecord]]
  /\ sinceStamp = [c \in Calls |-> 0]
  /\ sincePoll = [c \in Calls |-> 0]
  /\ obtained = [c \in Calls |-> "none"]
  /\ lastReq = [id \in RequestIds |-> 0]
  /\ lastResp = [id \in RequestIds |-> 0]
  /\ lastEventAge = [c \in Calls |-> -1]
  /\ sinceStart = [c \in Calls |-> 0]
  /\ eventInWait = [c \in Calls |-> FALSE]
  /\ settleGap = [c \in Calls |-> -2]
  /\ nEvents = 0
  /\ deliveredOn = [k \in Conns |-> {}]

\* No run of the query pipeline and no get-network-details call yet.
ToolInit ==
  /\ qStore = <<>>
  /\ qArgs = [urlFilter |-> "", statusCode |-> 0, limit |-> 0]
  /\ qOut = NoOutput
  /\ detail = NoDetail

Init == StartInit /\ SessionInit /\ ToolInit

\* The tool layer invokes start-chrome-debug: the handler runs to its first
\* await, the probe of index.ts:88.
StartCall(c) ==
  /\ Running
  /\ startPc[c] = "idle"
  /\ startPc' = [startPc EXCEPT ![c] = "probe"]
  /\ UNCHANGED <<chromeProcess, procState, errorPending, hostCrashed, retry,
                 startResult, reportedTargets, spawnCount, pkillCount,
                 probesAfterSpawn, observedTargets, spawnOverlap>>
  /\ UNCHANGED <<sessionVars, toolVars>>

\* index.ts:88-101: the first probe returns. Reachable with a target: return the
\* already-running text. Otherwise call killChromeDebugProcesses, which spawns
\* pkill and awaits its close.
StartProbeDone(c, r) ==
  /\ Running
  /\ startPc[c] = "probe"
  /\ IF Accessible(r)
       THEN /\ startPc' = [startPc EXCEPT ![c] = "done"]
            /\ startResult' = [startResult EXCEPT ![c] = "alreadyRunning"]
            /\ reportedTargets' = [reportedTargets EXCEPT ![c] = TargetCountText(r)]
       ELSE /\ startPc' = [startPc EXCEPT ![c] = "pkill"]
            /\ UNCHANGED <<startResult, reportedTargets>>
  /\ UNCHANGED <<chromeProcess, procState, errorPending, hostCrashed, retry,
                 spawnCount, pkillCount, probesAfterSpawn, observedTargets,
                 spawnOverlap>>
  /\ UNCHANGED <<sessionVars, toolVars>>

\* killChromeDebugProcesses (index.ts:46-58): `pkill -f remote-debugging-port=9222`
\* runs and closes; the handler then sleeps 1000 ms. The signal is best effort:
\* with effective it ends every live debug browser, without it none. (pkill is
\* taken to exist on the host: its own spawn failure is not modelled.)
PkillTargets(effective) ==
  IF effective THEN {p \in StartCalls : procState[p] = "alive"} ELSE {}

StartPkill(c, effective) ==
  /\ Running
  /\ startPc[c] = "pkill"
  /\ procState' = [p \in StartCalls |->
                     IF p \in PkillTargets(effective) THEN "exited" ELSE procState[p]]
  /\ pkillCount' = [pkillCount EXCEPT ![c] = @ + 1]
  /\ startPc' = [startPc EXCEPT ![c] = "killWait"]
  /\ UNCHANGED <<chromeProcess, errorPending, hostCrashed, retry, startResult,
                 reportedTargets, spawnCount, probesAfterSpawn, observedTargets,
                 spawnOverlap>>
  /\ UNCHANGED <<sessionVars, toolVars>>

\* Whether some browser spawned by a start-chrome-debug call is alive.
SomeSpawnedAlive == \E p \in StartCalls : procState[p] = "alive"

\* index.ts:103-134: after the 1000 ms grace wait, spawn the browser, store the
\* ChildProcess in the global, register the 'error' listener and call
\* waitForChromeAccessible, whose first probe is issued at once. The process
\* spawned by call c has pid c. outcome is what child_process.spawn does:
\*   "ok"     the process runs;
\*   "error"  ENOENT / EACCES: spawn() returns a ChildProcess and queues its
\*            'error' event for the next tick;
\*   "throw"  any other OS failure: spawn() throws and the catch of
\*            index.ts:156-167 returns the failure text.
SpawnOutcomes == {"ok", "error", "throw"}

StartSpawn(c, outcome) ==
  /\ Running
  /\ startPc[c] = "killWait"
  /\ spawnCount' = [spawnCount EXCEPT ![c] = @ + 1]
  /\ IF outcome = "throw"
       THEN /\ startPc' = [startPc EXCEPT ![c] = "done"]
            /\ startResult' = [startResult EXCEPT ![c] = "spawnFailed"]
            /\ UNCHANGED <<chromeProcess, procState, errorPending, retry,
                           probesAfterSpawn, spawnOverlap>>
       ELSE /\ chromeProcess' = c
            /\ procState' = [procState EXCEPT ![c] =
                               IF outcome = "ok" THEN "alive" ELSE "failed"]
            /\ errorPending' = IF outcome = "error" THEN errorPending \cup {c}
                                                    ELSE errorPending
            /\ spawnOverlap' = (spawnOverlap \/ (outcome = "ok" /\ SomeSpawnedAlive))
            /\ retry' = [retry EXCEPT ![c] = 0]
            /\ probesAfterSpawn' = [probesAfterSpawn EXCEPT ![c] = 1]
            /\ startPc' = [startPc EXCEPT ![c] = "poll"]
            /\ UNCHANGED startResult
  /\ UNCHANGED <<hostCrashed, reportedTargets, pkillCount, observedTargets>>
  /\ UNCHANGED <<sessionVars, toolVars>>

\* index.ts:129-131: the queued 'error' event is emitted; the listener throws
\* inside the emitter, outside every try block of the handler, and the host has
\* no uncaughtException handler: the exception ends the host process.
SpawnErrorEvent(p) ==
  /\ ~hostCrashed
  /\ p \in errorPending
  /\ errorPending' = errorPending \ {p}
  /\ hostCrashed' = TRUE
  /\ UNCHANGED <<chromeProcess, procState, startPc, retry, startResult,
                 reportedTargets, spawnCount, pkillCount, probesAfterSpawn,
                 observedTargets, spawnOverlap>>
  /\ UNCHANGED <<sessionVars, toolVars>>

\* The browser process ends on its own (crash, user quits it).
ProcessExit(p) ==
  /\ Running
  /\ procState[p] = "alive"
  /\ procState' = [procState EXCEPT ![p] = "exited"]
  /\ UNCHANGED <<chromeProcess, errorPending, hostCrashed, startPc, retry,
                 startResult, reportedTargets, spawnCount, pkillCount,
                 probesAfterSpawn, observedTargets, spawnOverlap>>
  /\ UNCHANGED <<sessionVars, toolVars>>

\* chromeProcess.kill() (index.ts:149): SIGTERM to the process the GLOBAL handle
\* refers to, whichever call spawned it.
KillHandle(ps, h) ==
  [p \in StartCalls |-> IF p = h /\ ps[p] = "alive" THEN "exited" ELSE ps[p]]

\* waitForChromeAccessible (index.ts:61-68) inside index.ts:134-155: the probe of
\* iteration i returns.  Reachable: the loop returns true and the handler issues
\* the separate probe of index.ts:137.  Not reachable: sleep 500 ms, then either
\* issue the probe of iteration i+1 or, after the last iteration, return false:
\* the handler kills and clears the global handle and throws into its own catch.
StartPollDone(c, r) ==
  /\ Running
  /\ startPc[c] = "poll"
  /\ IF Accessible(r)
       THEN /\ observedTargets' = [observedTargets EXCEPT ![c] = r]
            /\ probesAfterSpawn' = [probesAfterSpawn EXCEPT ![c] = @ + 1]
            /\ startPc' = [startPc EXCEPT ![c] = "report"]
            /\ UNCHANGED <<chromeProcess, procState, retry, startResult>>
       ELSE IF retry[c] + 1 < MaxRetries
         THEN /\ retry' = [retry EXCEPT ![c] = @ + 1]
              /\ probesAfterSpawn' = [probesAfterSpawn EXCEPT ![c] = @ + 1]
              /\ UNCHANGED <<chromeProcess, procState, startPc, startResult,
                             observedTargets>>
         ELSE /\ procState' = IF chromeProcess # 0
                                THEN KillHandle(procState, chromeProcess)
                                ELSE procState
              /\ chromeProcess' = 0
              /\ startPc' = [startPc EXCEPT ![c] = "done"]
              /\ startResult' = [startResult EXCEPT ![c] = "timeout"]
              /\ UNCHANGED <<retry, probesAfterSpawn, observedTargets>>
  /\ UNCHANGED <<errorPending, hostCrashed, reportedTargets, spawnCount, pkillCount,
                 spawnOverlap>>
  /\ UNCHANGED <<sessionVars, toolVars>>

\* index.ts:137-145: the probe issued after the wait returns; its target count,
\* or 0 when it has none, is printed in the success text.
StartReportDone(c, r) ==
  /\ Running
  /\ startPc[c] = "report"
  /\ startPc' = [startPc EXCEPT ![c] = "done"]
  /\ startResult' = [startResult EXCEPT ![c] = "started"]
  /\ reportedTargets' = [reportedTargets EXCEPT ![c] = TargetCountText(r)]
  /\ UNCHANGED <<chromeProcess, procState, errorPending, hostCrashed, retry,
                 spawnCount, pkillCount, probesAfterSpawn, observedTargets,
                 spawnOverlap>>
  /\ UNCHANGED <<sessionVars, toolVars>>

StartNext ==
  \/ \E c \in StartCalls : StartCall(c)
  \/ \E c \in StartCalls, r \in ProbeResults : StartProbeDone(c, r)
  \/ \E c \in StartCalls, e \in BOOLEAN : StartPkill(c, e)
  \/ \E c \in StartCalls, o \in SpawnOutcomes : StartSpawn(c, o)
  \/ \E p \in StartCalls : SpawnErrorEvent(p)
  \/ \E p \in StartCalls : ProcessExit(p)
  \/ \E c \in StartCalls, r \in ProbeResults : StartPollDone(c, r)
  \/ \E c \in StartCalls, r \in ProbeResults : StartReportDone(c, r)

SpecStart == Init /\ [][StartNext]_vars

(***************************************************************************)
(* Process Supervisor: the claims about start-chrome-debug.                *)
(***************************************************************************)

\* C4: StartDebugSession is idempotent: a call whose probe finds the endpoint
\* reachable with a target returns the already-running result and neither kills
\* nor spawns; and over any sequence or interleaving of calls no browser is
\* spawned while one spawned by an earlier or overlapping call is still alive.
C4_NeverDoubleLaunches ==
  /\ \A c \in StartCalls :
       startResult[c] = "alreadyRunning" => spawnCount[c] = 0 /\ pkillCount[c] = 0
  /\ ~spawnOverlap

\* C5: a call that launches the browser spawns exactly once, probes the endpoint
\* at most 15 times after the spawn, and on success reports the target count
\* seen by the probe that found the endpoint reachable (so at least 1).
C5_SpawnOncePollBoundedCountObserved ==
  \A c \in StartCalls :
    /\ spawnCount[c] <= 1
    /\ probesAfterSpawn[c] <= MaxRetries
    /\ startResult[c] = "started" =>
         /\ spawnCount[c] = 1
         /\ reportedTargets[c] = observedTargets[c]
         /\ reportedTargets[c] >= 1

\* C6: a call that times out after its 15 polls returns the failure result and
\* leaves no process it spawned alive or referenced by the global handle.
C6_TimeoutKillsOwnProcess ==
  \A c \in StartCalls :
    startResult[c] = "timeout" => procState[c] # "alive" /\ chromeProcess # c

\* C7: a call whose spawn failed at the OS level (executable not found,
\* permission denied) returns the spawn-failure result at once: it is never in
\* the polling loop, issues no probe after the spawn and reports no timeout.
C7_SpawnFailureFailsImmediately ==
  \A c \in StartCalls :
    procState[c] = "failed" =>
      /\ startPc[c] \notin {"poll", "report"}
      /\ probesAfterSpawn[c] = 0
      /\ startPc[c] = "done" => startResult[c] = "spawnFailed"

\* C8: no error of a collaborator escapes an operation's boundary or terminates
\* the host process: every failure ends in a returned text result.
C8_NoErrorEscapesOrKillsHost == ~hostCrashed

(***************************************************************************)
(* Record Store, Protocol Session Manager and the handlers of              *)
(* query-network-traffic and open-url.                                     *)
(***************************************************************************)
connVars == <<sock, netEnabled, pageEnabled, persist, tempOn, noops>>
storeVars == <<networkRequests, lastReq, lastResp, nEvents, deliveredOn>>
loadVars == <<pageLoadRequests, sinceStamp, lastEventAge, sinceStart, eventInWait>>

Min(a, b) == IF a < b THEN a ELSE b

\* requestWillBeSent handler (index.ts:227-239, 568-581, 608-620): the map entry
\* is SET to a new object holding the request fields only.
OnRequestSent(rec, v) == [present |-> TRUE, req |-> v, resp |-> 0]

\* responseReceived handler (index.ts:241-257, 583-600, 622-638): the existing
\* entry, or {} when there is none, is spread and the response fields are set.
OnResponseReceived(rec, w) == [present |-> TRUE, req |-> rec.req, resp |-> w]

\* tempRequestHandler / tempResponseHandler: lastNetworkActivity = Date.now()
\* (index.ts:609, 623), so Date.now() - lastNetworkActivity becomes 0.
StampOnRequest(t) == 0

\* Mutant: the response handler does not stamp lastNetworkActivity.
StampOnResponse_Skip(t) == t

StampOnResponse(t) == 0

\* Mutant: the window must be exceeded, timeSinceLastActivity > 1000.
SettleReached_Exceeded(t) == t > ActivityWindowMs

\* Mutant: the operands of the subtraction swapped,
\* lastNetworkActivity - Date.now() >= 1000.
SettleReached_Swapped(t) == (0 - t) >= ActivityWindowMs

\* Mutant: lastNetworkActivity starts at 0 (the epoch), so that the time since
\* the last activity exceeds the window from the start.
StampAtStart_Epoch == Horizon

\* `let lastNetworkActivity = Date.now()` (index.ts:605), in the turn that
\* registers the temporary pair: Date.now() - lastNetworkActivity starts at 0.
StampAtStart == 0

\* waitForNetworkSettle's test (index.ts:651-652) on t = Date.now() - lastNetworkActivity.
SettleReached(t) == t >= ActivityWindowMs

\* formatMarkdown (index.ts:322-328): `req.url.replace(...)` throws a TypeError
\* for a listed record that has no url, that is no request fields.
FormatThrows(store) == \E id \in RequestIds : store[id].present /\ store[id].req = 0

\* The text query-network-traffic returns once it holds a connection
\* (index.ts:260-355, no filter and the default limit): the report, or the
\* error text of the catch when formatting threw.
QueryResult(store) == IF FormatThrows(store) THEN "error" ELSE "report"

\* Mutant: the bring-up registers no persistent handlers.
RegisterPersistent_Skipped(p, k) == p

\* index.ts:227-257, 568-600: cdpClient.Network.requestWillBeSent(...) and
\* cdpClient.Network.responseReceived(...) add one persistent pair to the
\* listeners of the global client k.
RegisterPersistent(p, k) == [p EXCEPT ![k] = @ + 1]

\* A handler returns the text `res`.
Finish(c, res) ==
  /\ callPc' = [callPc EXCEPT ![c] = "done"]
  /\ callResult' = [callResult EXCEPT ![c] = res]

\* The tool layer invokes query-network-traffic or open-url: the handler runs to
\* its first await, the probe of index.ts:193 / 525.
Invoke(c, op) ==
  /\ Running
  /\ callPc[c] = "idle"
  /\ callOp' = [callOp EXCEPT ![c] = op]
  /\ callPc' = [callPc EXCEPT ![c] = "probe"]
  /\ UNCHANGED <<cdpClient, callResult, cmdConn, obtained, settleGap, sincePoll>>
  /\ UNCHANGED <<connVars, storeVars, loadVars, startVars, toolVars>>

\* query-network-traffic, index.ts:193-207: the probe returns.  Not reachable:
\* the not-running text.  Reachable and no global client: fetch the target list.
\* Reachable and a global client (open or not): it is used as it is and the
\* report is built from the store (index.ts:260-343).
QueryProbeDone(c, r) ==
  /\ Running
  /\ callOp[c] = "query" /\ callPc[c] = "probe"
  /\ IF ~Accessible(r)
       THEN Finish(c, "notRunning") /\ UNCHANGED obtained
       ELSE IF cdpClient = 0
         THEN /\ callPc' = [callPc EXCEPT ![c] = "list"]
              /\ UNCHANGED <<callResult, obtained>>
         ELSE /\ obtained' = [obtained EXCEPT ![c] =
                                IF sock[cdpClient] = "open" THEN "open" ELSE "stale"]
              /\ Finish(c, QueryResult(networkRequests))
  /\ UNCHANGED <<cdpClient, callOp, cmdConn, settleGap, sincePoll>>
  /\ UNCHANGED <<connVars, storeVars, loadVars, startVars, toolVars>>

\* index.ts:207-222 (query) and 537-550 (open-url, see OpenListDone): CDP.List
\* returns t targets, or throws (t = -1).  pageTarget is the first page target,
\* else targets[0]; none: the no-target text.  Query then starts the connect.
QueryListDone(c, t) ==
  /\ Running
  /\ callOp[c] = "query" /\ callPc[c] = "list"
  /\ IF t < 0 THEN Finish(c, "error")
     ELSE IF t = 0 THEN Finish(c, "noTarget")
     ELSE callPc' = [callPc EXCEPT ![c] = "connect"] /\ UNCHANGED callResult
  /\ UNCHANGED <<cdpClient, callOp, cmdConn, obtained, settleGap, sincePoll>>
  /\ UNCHANGED <<connVars, storeVars, loadVars, startVars, toolVars>>

\* index.ts:222-225: CDP(...) resolves with a new open connection, which is
\* stored in the global, and Network.enable is sent on it; or it rejects.
QueryConnectDone(c, ok) ==
  /\ Running
  /\ callOp[c] = "query" /\ callPc[c] = "connect"
  /\ IF ok
       THEN /\ sock' = [sock EXCEPT ![c] = "open"]
            /\ cdpClient' = c
            /\ cmdConn' = [cmdConn EXCEPT ![c] = c]
            /\ obtained' = [obtained EXCEPT ![c] = "open"]
            /\ callPc' = [callPc EXCEPT ![c] = "netEnable"]
            /\ UNCHANGED callResult
       ELSE /\ Finish(c, "error")
            /\ UNCHANGED <<sock, cdpClient, cmdConn, obtained>>
  /\ UNCHANGED <<callOp, settleGap, sincePoll, netEnabled, pageEnabled, persist,
                 tempOn, noops>>
  /\ UNCHANGED <<storeVars, loadVars, startVars, toolVars>>

\* index.ts:225-343: Network.enable resolves (or rejects: the catch returns the
\* error text and the global keeps the connection).  The persistent pair is
\* registered on whatever the global holds now, and the report is built.
QueryNetEnableDone(c, ok) ==
  /\ Running
  /\ callOp[c] = "query" /\ callPc[c] = "netEnable"
  /\ ok => sock[cmdConn[c]] = "open"
  /\ IF ok /\ cdpClient # 0
       THEN /\ netEnabled' = [netEnabled EXCEPT ![cmdConn[c]] = TRUE]
            /\ persist' = RegisterPersistent(persist, cdpClient)
            /\ Finish(c, QueryResult(networkRequests))
       ELSE /\ netEnabled' = IF ok THEN [netEnabled EXCEPT ![cmdConn[c]] = TRUE]
                                   ELSE netEnabled
            /\ Finish(c, "error")
            /\ UNCHANGED persist
  /\ UNCHANGED <<cdpClient, callOp, cmdConn, obtained, settleGap, sincePoll, sock,
                 pageEnabled, tempOn, noops>>
  /\ UNCHANGED <<storeVars, loadVars, startVars, toolVars>>

\* open-url, index.ts:525-537: the probe returns; reachable: fetch the target list.
OpenProbeDone(c, r) ==
  /\ Running
  /\ callOp[c] = "open" /\ callPc[c] = "probe"
  /\ IF ~Accessible(r)
       THEN Finish(c, "notRunning")
       ELSE callPc' = [callPc EXCEPT ![c] = "list"] /\ UNCHANGED callResult
  /\ UNCHANGED <<cdpClient, callOp, cmdConn, obtained, settleGap, sincePoll>>
  /\ UNCHANGED <<connVars, storeVars, loadVars, startVars, toolVars>>

\* index.ts:604-645: pageLoadRequests is a new map, lastNetworkActivity is now,
\* the temporary pair is registered on the global client and Page.navigate is
\* sent on it.
StartPageLoad(c) ==
  /\ tempOn' = [tempOn EXCEPT ![cdpClient] = @ \cup {c}]
  /\ pageLoadRequests' = [pageLoadRequests EXCEPT ![c] = [id \in RequestIds |-> NoRecord]]
  /\ sinceStamp' = [sinceStamp EXCEPT ![c] = StampAtStart]
  /\ lastEventAge' = [lastEventAge EXCEPT ![c] = -1]
  /\ sinceStart' = [sinceStart EXCEPT ![c] = 0]
  /\ eventInWait' = [eventInWait EXCEPT ![c] = FALSE]
  /\ cmdConn' = [cmdConn EXCEPT ![c] = cdpClient]
  /\ callPc' = [callPc EXCEPT ![c] = "navigate"]

\* index.ts:537-563: the target list returns.  With a target: the global client
\* is reused when its socket is open; otherwise a present client is closed
\* first (await), and a new connection is opened.
OpenListDone(c, t) ==
  /\ Running
  /\ callOp[c] = "open" /\ callPc[c] = "list"
  /\ IF t <= 0
       THEN /\ Finish(c, IF t < 0 THEN "error" ELSE "noTarget")
            /\ UNCHANGED <<cmdConn, obtained, tempOn, loadVars>>
       ELSE IF cdpClient = 0
         THEN /\ callPc' = [callPc EXCEPT ![c] = "connect"]
              /\ UNCHANGED <<callResult, cmdConn, obtained, tempOn, loadVars>>
         ELSE IF sock[cdpClient] # "open"
           THEN /\ callPc' = [callPc EXCEPT ![c] = "close"]
                /\ cmdConn' = [cmdConn EXCEPT ![c] = cdpClient]
                /\ UNCHANGED <<callResult, obtained, tempOn, loadVars>>
           ELSE /\ obtained' = [obtained EXCEPT ![c] = "open"]
                /\ StartPageLoad(c)
                /\ UNCHANGED callResult
  /\ UNCHANGED <<cdpClient, callOp, settleGap, sincePoll, sock, netEnabled,
                 pageEnabled, persist, noops>>
  /\ UNCHANGED <<storeVars, startVars, toolVars>>

\* index.ts:554-563: close() of the stale client settles (an error is ignored),
\* the global is set to null and the connect is started.
OpenCloseDone(c) ==
  /\ Running
  /\ callOp[c] = "open" /\ callPc[c] = "close"
  /\ sock' = [sock EXCEPT ![cmdConn[c]] = "closed"]
  /\ cdpClient' = 0
  /\ callPc' = [callPc EXCEPT ![c] = "connect"]
  /\ UNCHANGED <<callOp, callResult, cmdConn, obtained, settleGap, sincePoll,
                 netEnabled, pageEnabled, persist, tempOn, noops>>
  /\ UNCHANGED <<storeVars, loadVars, startVars, toolVars>>

\* index.ts:563-564: CDP(...) resolves with a new open connection, stored in the
\* global, and Page.enable is sent on it; or it rejects.
OpenConnectDone(c, ok) ==
  /\ Running
  /\ callOp[c] = "open" /\ callPc[c] = "connect"
  /\ IF ok
       THEN /\ sock' = [sock EXCEPT ![c] = "open"]
            /\ cdpClient' = c
            /\ cmdConn' = [cmdConn EXCEPT ![c] = c]
            /\ obtained' = [obtained EXCEPT ![c] = "open"]
            /\ callPc' = [callPc EXCEPT ![c] = "pageEnable"]
            /\ UNCHANGED callResult
       ELSE /\ Finish(c, "error")
            /\ UNCHANGED <<sock, cdpClient, cmdConn, obtained>>
  /\ UNCHANGED <<callOp, settleGap, sincePoll, netEnabled, pageEnabled, persist,
                 tempOn, noops>>
  /\ UNCHANGED <<storeVars, loadVars, startVars, toolVars>>

\* index.ts:564-565: Page.enable resolves and Network.enable is sent on whatever
\* the global holds now (a TypeError when it is null); or Page.enable rejects.
OpenPageEnableDone(c, ok) ==
  /\ Running
  /\ callOp[c] = "open" /\ callPc[c] = "pageEnable"
  /\ ok => sock[cmdConn[c]] = "open"
  /\ pageEnabled' = IF ok THEN [pageEnabled EXCEPT ![cmdConn[c]] = TRUE] ELSE pageEnabled
  /\ IF ok /\ cdpClient # 0
       THEN /\ cmdConn' = [cmdConn EXCEPT ![c] = cdpClient]
            /\ callPc' = [callPc EXCEPT ![c] = "netEnable"]
            /\ UNCHANGED callResult
       ELSE Finish(c, "error") /\ UNCHANGED cmdConn
  /\ UNCHANGED <<cdpClient, callOp, obtained, settleGap, sincePoll, sock, netEnabled,
                 persist, tempOn, noops>>
  /\ UNCHANGED <<storeVars, loadVars, startVars, toolVars>>

\* index.ts:565-645: Network.enable resolves; the persistent pair and then the
\* temporary pair are registered on the global client and Page.navigate is sent.
OpenNetEnableDone(c, ok) ==
  /\ Running
  /\ callOp[c] = "open" /\ callPc[c] = "netEnable"
  /\ ok => sock[cmdConn[c]] = "open"
  /\ netEnabled' = IF ok THEN [netEnabled EXCEPT ![cmdConn[c]] = TRUE] ELSE netEnabled
  /\ IF ok /\ cdpClient # 0
       THEN /\ persist' = RegisterPersistent(persist, cdpClient)
            /\ StartPageLoad(c)
            /\ UNCHANGED callResult
       ELSE /\ Finish(c, "error")
            /\ UNCHANGED <<persist, cmdConn, tempOn, loadVars>>
  /\ UNCHANGED <<cdpClient, callOp, obtained, settleGap, sincePoll, sock, pageEnabled,
                 noops>>
  /\ UNCHANGED <<storeVars, startVars, toolVars>>

\* index.ts:645-660: Page.navigate resolves and waitForNetworkSettle sets its
\* 100 ms interval timer; or it rejects (the temporary pair stays registered).
OpenNavigateDone(c, ok) ==
  /\ Running
  /\ callOp[c] = "open" /\ callPc[c] = "navigate"
  /\ ok => sock[cmdConn[c]] = "open"
  /\ IF ok
       THEN /\ callPc' = [callPc EXCEPT ![c] = "settle"]
            /\ sincePoll' = [sincePoll EXCEPT ![c] = 0]
            /\ UNCHANGED callResult
       ELSE Finish(c, "error") /\ UNCHANGED sincePoll
  /\ UNCHANGED <<cdpClient, callOp, cmdConn, obtained, settleGap>>
  /\ UNCHANGED <<connVars, storeVars, loadVars, startVars, toolVars>>

\* index.ts:650-716: the interval timer fires (never early, possibly late).
\* Below the window: wait for the next tick.  At or above it: clear the timer,
\* resolve; the handler registers the no-op pair on the global client (a
\* TypeError when it is null) and returns the summary; `new URL(url)` throws
\* for an url that does not parse (urlOk = FALSE).
PollCheck(c, urlOk) ==
  /\ Running
  /\ callOp[c] = "open" /\ callPc[c] = "settle"
  /\ sincePoll[c] >= PollMs
  /\ IF SettleReached(sinceStamp[c])
       THEN /\ settleGap' = [settleGap EXCEPT ![c] = lastEventAge[c]]
            /\ noops' = IF cdpClient # 0 THEN [noops EXCEPT ![cdpClient] = @ + 1] ELSE noops
            /\ Finish(c, IF cdpClient # 0 /\ urlOk THEN "summary" ELSE "error")
            /\ UNCHANGED sincePoll
       ELSE /\ sincePoll' = [sincePoll EXCEPT ![c] = 0]
            /\ urlOk
            /\ UNCHANGED <<settleGap, noops, callPc, callResult>>
  /\ UNCHANGED <<cdpClient, callOp, cmdConn, obtained, sock, netEnabled, pageEnabled,
                 persist, tempOn>>
  /\ UNCHANGED <<storeVars, loadVars, startVars, toolVars>>

\* The browser emits Network.requestWillBeSent on connection k: every subscriber
\* registered on k runs, synchronously, in one turn of the event loop.
RequestWillBeSent(k, id, v) ==
  /\ Running
  /\ sock[k] = "open" /\ netEnabled[k]
  /\ IF persist[k] > 0
       THEN /\ networkRequests' = [networkRequests EXCEPT ![id] = OnRequestSent(@, v)]
            /\ lastReq' = [lastReq EXCEPT ![id] = v]
       ELSE UNCHANGED <<networkRequests, lastReq>>
  /\ pageLoadRequests' = [c \in Calls |->
        IF c \in tempOn[k]
          THEN [pageLoadRequests[c] EXCEPT ![id] = OnRequestSent(@, v)]
          ELSE pageLoadRequests[c]]
  /\ sinceStamp' = [c \in Calls |->
        IF c \in tempOn[k] THEN StampOnRequest(sinceStamp[c]) ELSE sinceStamp[c]]
  /\ lastEventAge' = [c \in Calls |-> IF c \in tempOn[k] THEN 0 ELSE lastEventAge[c]]
  /\ eventInWait' = [c \in Calls |->
        IF c \in tempOn[k] THEN callPc[c] = "settle" ELSE eventInWait[c]]
  /\ nEvents' = Min(nEvents + 1, MaxEvents)
  /\ deliveredOn' = [deliveredOn EXCEPT ![k] = @ \cup {id}]
  /\ UNCHANGED <<cdpClient, callOp, callPc, callResult, cmdConn, obtained, settleGap,
                 sincePoll, lastResp, sinceStart>>
  /\ UNCHANGED <<connVars, startVars, toolVars>>

\* The browser emits Network.responseReceived on connection k.
ResponseReceived(k, id, w) ==
  /\ Running
  /\ sock[k] = "open" /\ netEnabled[k]
  /\ IF persist[k] > 0
       THEN /\ networkRequests' = [networkRequests EXCEPT ![id] = OnResponseReceived(@, w)]
            /\ lastResp' = [lastResp EXCEPT ![id] = w]
       ELSE UNCHANGED <<networkRequests, lastResp>>
  /\ pageLoadRequests' = [c \in Calls |->
        IF c \in tempOn[k]
          THEN [pageLoadRequests[c] EXCEPT ![id] = OnResponseReceived(@, w)]
          ELSE pageLoadRequests[c]]
  /\ sinceStamp' = [c \in Calls |->
        IF c \in tempOn[k] THEN StampOnResponse(sinceStamp[c]) ELSE sinceStamp[c]]
  /\ lastEventAge' = [c \in Calls |-> IF c \in tempOn[k] THEN 0 ELSE lastEventAge[c]]
  /\ eventInWait' = [c \in Calls |->
        IF c \in tempOn[k] THEN callPc[c] = "settle" ELSE eventInWait[c]]
  /\ nEvents' = Min(nEvents + 1, MaxEvents)
  /\ deliveredOn' = [deliveredOn EXCEPT ![k] = @ \cup {id}]
  /\ UNCHANGED <<cdpClient, callOp, callPc, callResult, cmdConn, obtained, settleGap,
                 sincePoll, lastReq, sinceStart>>
  /\ UNCHANGED <<connVars, startVars, toolVars>>

\* The socket of connection k closes (browser or tab closed, network drop).
SocketClose(k) ==
  /\ Running
  /\ sock[k] = "open"
  /\ sock' = [sock EXCEPT ![k] = "closed"]
  /\ UNCHANGED <<cdpClient, callOp, callPc, callResult, cmdConn, obtained, settleGap,
                 sincePoll, netEnabled, pageEnabled, persist, tempOn, noops>>
  /\ UNCHANGED <<storeVars, loadVars, startVars, toolVars>>

\* d milliseconds pass: Date.now() advances (it is taken never to step back) for
\* every call that is between the start of its page load and the end of its
\* settle wait.
Waiting(c) == callPc[c] \in {"navigate", "settle"}

Tick(d) ==
  /\ Running
  /\ \E c \in Calls : Waiting(c)
  /\ sinceStamp' = [c \in Calls |->
        IF Waiting(c) THEN Min(sinceStamp[c] + d, Horizon) ELSE sinceStamp[c]]
  /\ lastEventAge' = [c \in Calls |->
        IF Waiting(c) /\ lastEventAge[c] >= 0
          THEN Min(lastEventAge[c] + d, Horizon) ELSE lastEventAge[c]]
  /\ sinceStart' = [c \in Calls |->
        IF Waiting(c) THEN Min(sinceStart[c] + d, Horizon) ELSE sinceStart[c]]
  /\ sincePoll' = [c \in Calls |->
        IF callPc[c] = "settle" THEN Min(sincePoll[c] + d, PollMs) ELSE sincePoll[c]]
  /\ UNCHANGED <<cdpClient, callOp, callPc, callResult, cmdConn, obtained, settleGap,
                 pageLoadRequests, eventInWait>>
  /\ UNCHANGED <<connVars, storeVars, startVars, toolVars>>

\* Overlapping and successive query-network-traffic and open-url calls; time is
\* coarse (one step takes every running wait past its window).
SessionNext ==
  \/ \E c \in Calls, op \in {"query", "open"} : Invoke(c, op)
  \/ \E c \in Calls, r \in ProbeResults : QueryProbeDone(c, r)
  \/ \E c \in Calls, t \in ProbeResults : QueryListDone(c, t)
  \/ \E c \in Calls, ok \in BOOLEAN : QueryConnectDone(c, ok)
  \/ \E c \in Calls, ok \in BOOLEAN : QueryNetEnableDone(c, ok)
  \/ \E c \in Calls, r \in ProbeResults : OpenProbeDone(c, r)
  \/ \E c \in Calls, t \in ProbeResults : OpenListDone(c, t)
  \/ \E c \in Calls : OpenCloseDone(c)
  \/ \E c \in Calls, ok \in BOOLEAN : OpenConnectDone(c, ok)
  \/ \E c \in Calls, ok \in BOOLEAN : OpenPageEnableDone(c, ok)
  \/ \E c \in Calls, ok \in BOOLEAN : OpenNetEnableDone(c, ok)
  \/ \E c \in Calls, ok \in BOOLEAN : OpenNavigateDone(c, ok)
  \/ \E c \in Calls, u \in BOOLEAN : PollCheck(c, u)
  \/ \E k \in Conns, id \in RequestIds :
       nEvents < MaxEvents /\ RequestWillBeSent(k, id, 1)
  \/ \E k \in Conns, id \in RequestIds :
       nEvents < MaxEvents /\ ResponseReceived(k, id, 1)
  \/ \E k \in Conns : SocketClose(k)
  \/ Tick(Horizon)

SpecSession == Init /\ [][SessionNext]_vars

\* One query-network-traffic or open-url call and the event stream of its
\* connection, with every payload and no bound on the number of events.
StoreNext ==
  \/ \E op \in {"query", "open"} : Invoke(1, op)
  \/ \E r \in ProbeResults : QueryProbeDone(1, r)
  \/ \E t \in ProbeResults : QueryListDone(1, t)
  \/ \E ok \in BOOLEAN : QueryConnectDone(1, ok)
  \/ \E ok \in BOOLEAN : QueryNetEnableDone(1, ok)
  \/ \E r \in ProbeResults : OpenProbeDone(1, r)
  \/ \E t \in ProbeResults : OpenListDone(1, t)
  \/ \E ok \in BOOLEAN : OpenConnectDone(1, ok)
  \/ \E ok \in BOOLEAN : OpenPageEnableDone(1, ok)
  \/ \E ok \in BOOLEAN : OpenNetEnableDone(1, ok)
  \/ \E ok \in BOOLEAN : OpenNavigateDone(1, ok)
  \/ \E u \in BOOLEAN : PollCheck(1, u)
  \/ \E id \in RequestIds, v \in Vals : RequestWillBeSent(1, id, v)
  \/ \E id \in RequestIds, w \in Vals : ResponseReceived(1, id, w)
  \/ SocketClose(1)
  \/ Tick(Horizon)

SpecStore == Init /\ [][StoreNext]_vars

(***************************************************************************)
(* Record Store and Protocol Session Manager: the claims.                  *)
(***************************************************************************)

\* C1: for every requestId, once a request event and a response event for it
\* have been given to the persistent subscribers, in either order, its record
\* has the request fields of the (last) request event and the response fields
\* of the last response event.
C1_OrderIndependentMerge ==
  \A id \in RequestIds :
    lastReq[id] # 0 /\ lastResp[id] # 0 =>
      /\ networkRequests[id].present
      /\ networkRequests[id].req = lastReq[id]
      /\ networkRequests[id].resp = lastResp[id]

OpenConns == {k \in Conns : sock[k] = "open"}
Connecting == {c \in Calls : callPc[c] = "connect"}

\* C2: at most one transport connection is open process-wide, over every
\* interleaving of QueryTraffic and OpenUrl calls: no call is opening a
\* connection while another is open or being opened, and every open connection
\* is the shared handle.
C2_AtMostOneConnection ==
  /\ Cardinality(OpenConns) + Cardinality(Connecting) <= 1
  /\ \A k \in OpenConns : cdpClient = k

\* C3: whenever QueryTraffic or OpenUrl obtains the shared connection, the
\* connection it goes on with has an open socket: a stale one is never reused.
C3_NeverReusesStaleConnection ==
  \A c \in Calls : obtained[c] # "stale"

(***************************************************************************)
(* Quiescence Detector: one open-url call with the clock in steps of       *)
(* TickMs, the interval timer and the event stream of its connection.      *)
(***************************************************************************)
SettleNext ==
  \/ Invoke(1, "open")
  \/ \E r \in ProbeResults : OpenProbeDone(1, r)
  \/ \E t \in ProbeResults : OpenListDone(1, t)
  \/ \E ok \in BOOLEAN : OpenConnectDone(1, ok)
  \/ \E ok \in BOOLEAN : OpenPageEnableDone(1, ok)
  \/ \E ok \in BOOLEAN : OpenNetEnableDone(1, ok)
  \/ \E ok \in BOOLEAN : OpenNavigateDone(1, ok)
  \/ \E u \in BOOLEAN : PollCheck(1, u)
  \/ RequestWillBeSent(1, 1, 1)
  \/ ResponseReceived(1, 1, 1)
  \/ SocketClose(1)
  \/ Tick(TickMs)

SpecSettle == Init /\ [][SettleNext]_vars

\* The clock advances and the interval timer of a pending wait keeps firing.
LiveSettle ==
  /\ Init /\ [][SettleNext]_vars
  /\ WF_vars(Tick(TickMs))
  /\ WF_vars(\E u \in BOOLEAN : PollCheck(1, u))

\* C9: the settle wait of an open-url call never resolves less than
\* activityWindowMs (1000 ms) after the most recent request or response event
\* seen by that call's temporary subscribers.
C9_SettleNotBeforeWindow ==
  \A c \in Calls : settleGap[c] >= 0 => settleGap[c] >= ActivityWindowMs

\* A wait that resolved after its temporary subscribers had seen an event.
C9_Witness ==
  \E c \in Calls : callResult[c] = "summary" /\ settleGap[c] >= ActivityWindowMs

\* C10 as claimed: a settle wait that has started always resolves, whatever
\* the pattern of arrivals, an unending stream included.
C10_AlwaysResolves ==
  \A c \in Calls : (callPc[c] = "settle") ~> (callPc[c] = "done")

\* An event reaches the temporary subscribers of some open-url call.
EventSeen ==
  \E k \in Conns, id \in RequestIds, v \in Vals :
    /\ tempOn[k] # {}
    /\ RequestWillBeSent(k, id, v) \/ ResponseReceived(k, id, v)

\* C10, amended: a settle wait that has started resolves unless events keep
\* arriving for ever, given that the clock advances and the timer keeps firing.
C10_ResolvesUnlessEventsNeverStop ==
  \/ []<><<EventSeen>>_vars
  \/ \A c \in Calls : (callPc[c] = "settle") ~> (callPc[c] = "done")

\* A wait that resolved although several events had arrived.
C10_Witness ==
  \E c \in Calls : callPc[c] = "done" /\ settleGap[c] >= 0 /\ nEvents >= 2

\* The interval timer of call c fires in this step: the wait resolves, or the
\* test fails and the wait goes on to the next tick.
PollFired(c) ==
  /\ callPc[c] = "settle"
  /\ callPc'[c] = "done" \/ (sincePoll[c] >= PollMs /\ sincePoll'[c] = 0)

\* C11 as claimed: when no event has arrived since the temporary subscribers
\* were registered, the wait resolves at its first poll check: no poll check of
\* such a wait leaves it pending.
C11_NoEventResolvesAtFirstPoll ==
  [][\A c \in Calls :
       PollFired(c) /\ lastEventAge[c] = -1 => callPc'[c] = "done"]_vars

\* C11, amended: when no event has arrived since the temporary subscribers
\* were registered, a poll check resolves the wait if and only if at least
\* activityWindowMs have passed since that registration: the wait lasts one
\* activity window from its start and ends at the first poll check after it.
C11_NoEventResolvesOneWindowAfterStart ==
  [][\A c \in Calls :
       PollFired(c) /\ lastEventAge[c] = -1 =>
         (callPc'[c] = "done" <=> sinceStart[c] >= ActivityWindowMs)]_vars

\* A wait that resolved without its temporary subscribers having seen an event.
C11_Witness ==
  \E c \in Calls : callResult[c] = "summary" /\ settleGap[c] = -1

(***************************************************************************)
(* query-network-traffic, index.ts:260-343: the filter, the sort, the slice *)
(* and formatMarkdown, as functions of the records of the store and of the  *)
(* arguments.  A record is referred to by its position in the store.        *)
(***************************************************************************)
\* Largest number of records of the store in SpecQuery.
MaxRecords == 3

\* String(undefined): what RegExp.test makes of a missing url.
Undefined == "undefined"

AbsoluteUrls == {"https://a.test/x", "https://b.test/y", "http://invalid-url/z"}
Urls == AbsoluteUrls \cup {"/relative"}
Timestamps == {1, 2}
UrlFilters == {"", "a.test"}
StatusCodes == {0, 200}

\* The shapes of a record: written by the request handler (url and timestamp,
\* no response yet), or by the response handler with no request event before
\* it (the response, no url and no timestamp).
RecordShapes ==
  {[url |-> u, timestamp |-> t] : u \in Urls, t \in Timestamps} \cup {[status |-> 200]}

Stores == UNION {[1..n -> RecordShapes] : n \in 0..MaxRecords}

\* `new RegExp(urlFilter.replace(/\*/g, ".*"), "i").test(req.url)` (index.ts:263-264)
\* for the filters of UrlFilters: the text holds the filter.
RegExpTest(f, text) == f = "a.test" /\ text = "https://a.test/x"

\* index.ts:262-281: the url filter and the status filter, each applied only
\* when its argument is truthy.  (The method filter, index.ts:267-273, has the
\* shape of the status filter and is left out.)
PassesFilters(r, args) ==
  /\ args.urlFilter # "" =>
       RegExpTest(args.urlFilter, IF "url" \in DOMAIN r THEN r.url ELSE Undefined)
  /\ args.statusCode # 0 => "status" \in DOMAIN r /\ r.status = args.statusCode

Filter(store, args) ==
  LET Keep(i) == PassesFilters(store[i], args)
  IN SelectSeq([i \in 1..Len(store) |-> i], Keep)

\* `x.timestamp || 0` (index.ts:285)
TimestampOrZero(r) == IF "timestamp" \in DOMAIN r THEN r.timestamp ELSE 0

\* Mutant: the comparator with its operands swapped, oldest first.
CompareTimestamps_Ascending(a, b) == TimestampOrZero(a) - TimestampOrZero(b)

\* The comparator of index.ts:285: negative when a is to come before b.
CompareTimestamps(a, b) == TimestampOrZero(b) - TimestampOrZero(a)

\* Array.prototype.sort is stable: x goes behind every element that is not to
\* come after it.
InsertByTimestamp(store, s, x) ==
  LET k == Cardinality({i \in 1..Len(s) : CompareTimestamps(store[s[i]], store[x]) <= 0})
  IN SubSeq(s, 1, k) \o <<x>> \o SubSeq(s, k + 1, Len(s))

RECURSIVE SortByTimestamp(_, _)
SortByTimestamp(store, s) ==
  IF s = <<>> THEN <<>>
  ELSE InsertByTimestamp(store, SortByTimestamp(store, SubSeq(s, 1, Len(s) - 1)), s[Len(s)])

\* `.slice(0, limit)` (index.ts:286) for limit >= 0.
Slice(s, limit) == SubSeq(s, 1, Min(limit, Len(s)))

\* `new URL(req.url).hostname` (index.ts:299) for the urls of AbsoluteUrls.
Hostname(u) ==
  CASE u = "https://a.test/x" -> "a.test"
    [] u = "https://b.test/y" -> "b.test"
    [] u = "http://invalid-url/z" -> "invalid-url"

\* index.ts:298-310: the hostname, or "invalid-url" when `new URL` throws (a
\* relative url, or no url at all).
DomainOf(r) ==
  IF "url" \in DOMAIN r /\ r.url \in AbsoluteUrls THEN Hostname(r.url) ELSE "invalid-url"

\* index.ts:300-303 / 306-309: push to the array of the domain, created on its
\* first record; a Map keeps its keys in insertion order.
AddToDomain(domains, d, x) ==
  IF \E i \in 1..Len(domains) : domains[i].domain = d
    THEN [i \in 1..Len(domains) |->
            IF domains[i].domain = d
              THEN [domains[i] EXCEPT !.members = Append(@, x)]
              ELSE domains[i]]
    ELSE Append(domains, [domain |-> d, members |-> <<x>>])

\* index.ts:296-312: requests.forEach over the list.
RECURSIVE GroupByDomain(_, _)
GroupByDomain(store, s) ==
  IF s = <<>> THEN <<>>
  ELSE AddToDomain(GroupByDomain(store, SubSeq(s, 1, Len(s) - 1)),
                   DomainOf(store[s[Len(s)]]), s[Len(s)])

\* Mutant: the comparator with its operands swapped, smallest group first.
CompareCounts_Ascending(a, b) == Len(a.members) - Len(b.members)

\* The comparator of index.ts:316.
CompareCounts(a, b) == Len(b.members) - Len(a.members)

InsertByCount(g, x) ==
  LET k == Cardinality({i \in 1..Len(g) : CompareCounts(g[i], x) <= 0})
  IN SubSeq(g, 1, k) \o <<x>> \o SubSeq(g, k + 1, Len(g))

\* index.ts:315-317: Array.from(domains.entries()).sort(...)
RECURSIVE SortByCount(_)
SortByCount(g) ==
  IF g = <<>> THEN <<>>
  ELSE InsertByCount(SortByCount(SubSeq(g, 1, Len(g) - 1)), g[Len(g)])

\* index.ts:322-328: `req.url.replace(...)` is outside the try of the grouping
\* and throws a TypeError for a listed record without url.
LineThrows(store, s) == \E i \in 1..Len(s) : "url" \notin DOMAIN store[s[i]]

\* index.ts:283-355: the list, the groups and the kind of text returned: the
\* no-requests text, the grouped report, or the error text of the catch.
RunPipeline(store, args) ==
  LET requests == Slice(SortByTimestamp(store, Filter(store, args)), args.limit)
  IN IF requests = <<>>
       THEN [requests |-> requests, sortedDomains |-> <<>>, text |-> "empty"]
       ELSE [requests |-> requests,
             sortedDomains |-> SortByCount(GroupByDomain(store, requests)),
             text |-> IF LineThrows(store, requests) THEN "error" ELSE "report"]

QueryInit ==
  /\ StartInit /\ SessionInit
  /\ qStore \in Stores
  /\ qArgs \in [urlFilter : UrlFilters, statusCode : StatusCodes, limit : 0..MaxRecords]
  /\ qOut = NoOutput
  /\ detail = NoDetail

RunQuery ==
  /\ qOut.text = "none"
  /\ qOut' = RunPipeline(qStore, qArgs)
  /\ UNCHANGED <<qStore, qArgs, detail, startVars, sessionVars>>

SpecQuery == QueryInit /\ [][RunQuery]_vars

\* The members of every group, and the positions of the list.
Listed == {qOut.requests[i] : i \in 1..Len(qOut.requests)}
GroupsOf(x) ==
  {i \in 1..Len(qOut.sortedDomains) :
     \E j \in 1..Len(qOut.sortedDomains[i].members) : qOut.sortedDomains[i].members[j] = x}

\* C12: whenever the list holds a record whose url does not parse, a record
\* without url (response only) included, the text is the grouped report, not
\* the error text, and the record is in the invalid-url group.
C12_UnparseableUrlStillReported ==
  \A x \in Listed :
    DomainOf(qStore[x]) = "invalid-url" =>
      /\ qOut.text = "report"
      /\ \E i \in GroupsOf(x) : qOut.sortedDomains[i].domain = "invalid-url"

\* C13: for every content of the store and every limit >= 0, the list has at
\* most `limit` records and is in non-increasing order of request timestamp, a
\* missing timestamp counting as 0.
C13_AtMostLimitNewestFirst ==
  qOut.text # "none" =>
    /\ Len(qOut.requests) <= qArgs.limit
    /\ \A i, j \in 1..Len(qOut.requests) :
         i < j => TimestampOrZero(qStore[qOut.requests[i]])
                    >= TimestampOrZero(qStore[qOut.requests[j]])

\* A list of an unfiltered store of three records that the limit has cut to
\* two: a record stored later comes first, and a record without timestamp last.
C13_Witness ==
  /\ qArgs.urlFilter = "" /\ qArgs.statusCode = 0 /\ qArgs.limit = 2
  /\ Len(qStore) = 3 /\ Len(qOut.requests) = 2
  /\ qOut.requests[1] > qOut.requests[2]
  /\ TimestampOrZero(qStore[qOut.requests[1]]) = 2
  /\ "timestamp" \notin DOMAIN qStore[qOut.requests[2]]

\* C14: the groups partition the list by hostname: every listed record is in
\* exactly one group, once, and nothing else is; the group of a record is named
\* by its hostname, or invalid-url when its url does not parse; the groups are
\* in non-increasing order of member count; the members of a group are in the
\* order they have in the list.
C14_GroupsPartitionByHostname ==
  LET g == qOut.sortedDomains
      Pos(x) == CHOOSE i \in 1..Len(qOut.requests) : qOut.requests[i] = x
  IN qOut.text \in {"report", "error"} =>
       /\ \A x \in Listed : Cardinality(GroupsOf(x)) = 1
       /\ \A i \in 1..Len(g) :
            /\ g[i].members # <<>>
            /\ \A j \in 1..Len(g[i].members) :
                 /\ g[i].members[j] \in Listed
                 /\ LET r == qStore[g[i].members[j]]
                    IN g[i].domain = IF "url" \in DOMAIN r /\ r.url \in AbsoluteUrls
                                       THEN Hostname(r.url) ELSE "invalid-url"
            /\ \A j, k \in 1..Len(g[i].members) :
                 j < k => Pos(g[i].members[j]) < Pos(g[i].members[k])
       /\ \A i, k \in 1..Len(g) : i < k => Len(g[i].members) >= Len(g[k].members)
       /\ \A i, k \in 1..Len(g) : i # k => g[i].domain # g[k].domain

\* A report of two groups in which the larger group, listed first, is the one
\* whose first record comes later in the list, and the other is invalid-url.
C14_Witness ==
  /\ qOut.text = "report"
  /\ Len(qOut.sortedDomains) = 2
  /\ Len(qOut.sortedDomains[1].members) = 2
  /\ qOut.sortedDomains[2].domain = "invalid-url"
  /\ qOut.sortedDomains[2].members[1] = qOut.requests[1]

(***************************************************************************)
(* get-network-details, index.ts:371-513.                                  *)
(***************************************************************************)
\* The request fields a payload stands for: 1 a GET, 2 a POST whose event
\* carried no postData, 3 a PUT whose event carried its postData, and so on
\* in turn.  Payload 0 (a response-only record) has no method and no postData.
MethodOf(v) == CASE v % 3 = 1 -> "GET" [] v % 3 = 2 -> "POST" [] OTHER -> "PUT"
HasPostData(v) == v % 3 = 0

\* Mutant: one try block around both fetches, so that a failed response-body
\* fetch skips the request-body fetch.
AttemptsPostDataFetch_AfterBodyOnly(rec, bodyOk) ==
  /\ bodyOk
  /\ rec.req # 0 /\ ~HasPostData(rec.req)
  /\ MethodOf(rec.req) \in {"POST", "PUT", "PATCH"}

\* index.ts:424-437: Network.getRequestPostData is called when request.postData
\* is falsy and the method is POST, PUT or PATCH; the try block of the
\* response-body fetch (index.ts:411-422) has ended before, whatever its outcome.
AttemptsPostDataFetch(rec, bodyOk) ==
  /\ rec.req # 0 /\ ~HasPostData(rec.req)
  /\ MethodOf(rec.req) \in {"POST", "PUT", "PATCH"}

\* get-network-details returns the text `res`.
DetailFinish(res) == [detail EXCEPT !.pc = "done", !.result = res]

\* The tool layer invokes get-network-details for requestId id: the handler
\* runs to its first await, the probe of index.ts:373.
DetailInvoke(id) ==
  /\ Running
  /\ detail.pc = "idle"
  /\ detail' = [detail EXCEPT !.pc = "probe", !.requestId = id]
  /\ UNCHANGED <<qStore, qArgs, qOut, startVars, sessionVars>>

\* index.ts:373-415: the probe returns.  Not reachable, no global client, no
\* record for the id: the respective error text.  Otherwise the record is
\* held and Network.getResponseBody is sent on the global client.
DetailProbeDone(r) ==
  /\ Running
  /\ detail.pc = "probe"
  /\ detail' =
       IF ~Accessible(r) THEN DetailFinish("notRunning")
       ELSE IF cdpClient = 0 THEN DetailFinish("noConnection")
       ELSE IF ~networkRequests[detail.requestId].present THEN DetailFinish("notFound")
       ELSE [detail EXCEPT !.pc = "body", !.request = networkRequests[detail.requestId],
                           !.conn = cdpClient]
  /\ UNCHANGED <<qStore, qArgs, qOut, startVars, sessionVars>>

\* index.ts:412-491: the response-body fetch resolves, or rejects and the
\* catch sets the placeholder.  Then: a cached postData is taken; or
\* Network.getRequestPostData is sent on the global client (a TypeError, caught,
\* when it is null); or there is nothing to fetch.  With nothing pending the
\* details are formatted and returned.
DetailBodyDone(ok) ==
  /\ Running
  /\ detail.pc = "body"
  /\ ok => sock[detail.conn] = "open"
  /\ LET body == IF ok THEN "body" ELSE "error"
     IN detail' =
          IF detail.request.req # 0 /\ HasPostData(detail.request.req)
            THEN [DetailFinish("detail") EXCEPT !.responseBody = body, !.postData = "cached"]
          ELSE IF AttemptsPostDataFetch(detail.request, ok)
            THEN IF cdpClient = 0
                   THEN [DetailFinish("detail") EXCEPT !.responseBody = body,
                                                       !.postData = "failed"]
                   ELSE [detail EXCEPT !.pc = "post", !.responseBody = body,
                                       !.conn = cdpClient]
          ELSE [DetailFinish("detail") EXCEPT !.responseBody = body]
  /\ UNCHANGED <<qStore, qArgs, qOut, startVars, sessionVars>>

\* index.ts:433-491: the request-body fetch resolves, or rejects (the catch
\* ignores it); the details are formatted and returned.
DetailPostDone(ok) ==
  /\ Running
  /\ detail.pc = "post"
  /\ ok => sock[detail.conn] = "open"
  /\ detail' = [DetailFinish("detail") EXCEPT !.postData = IF ok THEN "fetched" ELSE "failed"]
  /\ UNCHANGED <<qStore, qArgs, qOut, startVars, sessionVars>>

\* One get-network-details call, the query-network-traffic call that brings
\* the connection up, and the events of one request on that connection.
DetailNext ==
  \/ Invoke(1, "query")
  \/ \E r \in ProbeResults : QueryProbeDone(1, r)
  \/ \E t \in ProbeResults : QueryListDone(1, t)
  \/ \E ok \in BOOLEAN : QueryConnectDone(1, ok)
  \/ \E ok \in BOOLEAN : QueryNetEnableDone(1, ok)
  \/ \E v \in Vals : RequestWillBeSent(1, 1, v)
  \/ \E w \in Vals : ResponseReceived(1, 1, w)
  \/ SocketClose(1)
  \/ \E id \in RequestIds : DetailInvoke(id)
  \/ \E r \in ProbeResults : DetailProbeDone(r)
  \/ \E ok \in BOOLEAN : DetailBodyDone(ok)
  \/ \E ok \in BOOLEAN : DetailPostDone(ok)

SpecDetail == Init /\ [][DetailNext]_vars

\* The request-body fetch of the call has been attempted.
PostDataFetchAttempted == detail.pc = "post" \/ detail.postData \in {"fetched", "failed"}

\* C15: a get-network-details call that found the record of its requestId in
\* the store returns the detail report, not an error text, whatever the
\* outcomes of the response-body fetch and of the request-body fetch; the
\* request-body fetch is attempted exactly when the record has no postData
\* and its method is POST, PUT or PATCH, whether the response-body fetch
\* failed or not.
C15_DetailDespiteFetchFailures ==
  detail.request.present =>
    /\ detail.pc = "done" => detail.result = "detail"
    /\ detail.responseBody # "none" =>
         (PostDataFetchAttempted <=>
            /\ detail.request.req # 0
            /\ ~HasPostData(detail.request.req)
            /\ MethodOf(detail.request.req) \in {"POST", "PUT", "PATCH"})

\* A call that returned the detail report after both fetches had failed.
C15_Witness ==
  /\ detail.result = "detail"
  /\ detail.responseBody = "error" /\ detail.postData = "failed"

(***************************************************************************)
(* query-network-traffic and open-url calls made one after another: a call *)
(* is invoked only when no other call is running.                          *)
(***************************************************************************)
NoCallRunning == \A c \in Calls : callPc[c] \in {"idle", "done"}

SequentialNext ==
  \/ \E c \in Calls, op \in {"query", "open"} : NoCallRunning /\ Invoke(c, op)
  \/ \E c \in Calls, r \in ProbeResults : QueryProbeDone(c, r)
  \/ \E c \in Calls, t \in ProbeResults : QueryListDone(c, t)
  \/ \E c \in Calls, ok \in BOOLEAN : QueryConnectDone(c, ok)
  \/ \E c \in Calls, ok \in BOOLEAN : QueryNetEnableDone(c, ok)
  \/ \E c \in Calls, r \in ProbeResults : OpenProbeDone(c, r)
  \/ \E c \in Calls, t \in ProbeResults : OpenListDone(c, t)
  \/ \E c \in Calls : OpenCloseDone(c)
  \/ \E c \in Calls, ok \in BOOLEAN : OpenConnectDone(c, ok)
  \/ \E c \in Calls, ok \in BOOLEAN : OpenPageEnableDone(c, ok)
  \/ \E c \in Calls, ok \in BOOLEAN : OpenNetEnableDone(c, ok)
  \/ \E c \in Calls, ok \in BOOLEAN : OpenNavigateDone(c, ok)
  \/ \E c \in Calls, u \in BOOLEAN : PollCheck(c, u)
  \/ \E k \in Conns, id \in RequestIds :
       nEvents < MaxEvents /\ RequestWillBeSent(k, id, 1)
  \/ \E k \in Conns, id \in RequestIds :
       nEvents < MaxEvents /\ ResponseReceived(k, id, 1)
  \/ \E k \in Conns : SocketClose(k)
  \/ Tick(Horizon)

SpecSequential == Init /\ [][SequentialNext]_vars

\* A session is live: the shared handle holds a connection whose socket is open.
SessionLive == cdpClient # 0 /\ sock[cdpClient] = "open"

\* C16: while a session is live, the store holds a record for a requestId if
\* and only if a request-sent or response-received event for that requestId
\* has been delivered on the connection of the session.
C16_StoreHoldsExactlyDeliveredIds ==
  SessionLive =>
    \A id \in RequestIds :
      networkRequests[id].present <=> id \in deliveredOn[cdpClient]

\* A call is between its connect and the registration of the persistent pair
\* on connection k.
BringUpPending(k) ==
  \E c \in Calls : callPc[c] \in {"pageEnable", "netEnable"} /\ cmdConn[c] = k

\* C17: every open connection held as the shared handle has exactly one
\* persistent subscriber pair, once the call that created it is through its
\* bring-up, whether that call succeeded or failed part-way.
C17_ExactlyOnePersistentPair ==
  \A k \in Conns :
    cdpClient = k /\ sock[k] = "open" /\ ~BringUpPending(k) => persist[k] = 1

\* The settle wait of call c has resolved.
Resolved(c) == callPc[c] = "done" /\ settleGap[c] # -2

\* C18: once the settle wait of an open-url call has resolved, no event stamps
\* the call's last-activity time or changes its page-load record set.
C18_TemporarySubscribersSilent ==
  [][\A c \in Calls :
       Resolved(c) => /\ pageLoadRequests'[c] = pageLoadRequests[c]
                      /\ sinceStamp'[c] = sinceStamp[c]]_vars

\* Call c has closed a stale connection and is opening its replacement.
Replacing(c) == callOp[c] = "open" /\ callPc[c] = "connect" /\ cmdConn[c] # 0

\* C19: when a stale connection has been torn down and its replacement is
\* stored as the shared handle, the store is empty.
C19_StoreClearedOnReplacement ==
  [][\A c \in Calls :
       Replacing(c) /\ callPc'[c] = "pageEnable" =>
         \A id \in RequestIds : ~networkRequests'[id].present]_vars

\* C20: when an open-url call has sent Page.navigate on the shared
\* connection, Network.enable and Page.enable have both completed on that
\* connection, whichever operation created it.
C20_DomainsEnabledBeforeNavigate ==
  \A c \in Calls :
    callOp[c] = "open" /\ callPc[c] = "navigate" =>
      netEnabled[cmdConn[c]] /\ pageEnabled[cmdConn[c]]

(***************************************************************************)
(* Quiescence Detector: a gap in the middle of a page load.                *)
(***************************************************************************)
\* No poll check is due: the interval timer of every pending wait has fired
\* less than PollMs ago.
NoPollDue == \A c \in Calls : callPc[c] = "settle" => sincePoll[c] < PollMs

\* One open-url call whose interval timer is punctual: a poll check runs as
\* soon as it is due, every PollMs.
PunctualNext ==
  \/ Invoke(1, "open")
  \/ \E r \in ProbeResults : OpenProbeDone(1, r)
  \/ \E t \in ProbeResults : OpenListDone(1, t)
  \/ \E ok \in BOOLEAN : OpenConnectDone(1, ok)
  \/ \E ok \in BOOLEAN : OpenPageEnableDone(1, ok)
  \/ \E ok \in BOOLEAN : OpenNetEnableDone(1, ok)
  \/ \E ok \in BOOLEAN : OpenNavigateDone(1, ok)
  \/ \E u \in BOOLEAN : PollCheck(1, u)
  \/ RequestWillBeSent(1, 1, 1)
  \/ ResponseReceived(1, 1, 1)
  \/ SocketClose(1)
  \/ NoPollDue /\ Tick(TickMs)

SpecPunctual == Init /\ [][PunctualNext]_vars

\* C21 as claimed: with the timer firing every 100 ms (no check overdue), a
\* gap of activityWindowMs without event that began during the wait resolves
\* the wait: an event that arrives after such a gap never finds the wait
\* pending.
C21_ExactGapResolves ==
  [][\A c \in Calls :
       /\ callPc[c] = "settle"
       /\ eventInWait[c] /\ lastEventAge[c] >= ActivityWindowMs
       /\ sincePoll[c] < PollMs
       => lastEventAge'[c] # 0]_vars

\* C21, amended: anywhere during the wait, after a first event, a poll check
\* resolves the wait if and only if no event has arrived for at least
\* activityWindowMs when it fires, whatever arrives afterwards.
C21_GapSeenByPollResolves ==
  [][\A c \in Calls :
       PollFired(c) /\ lastEventAge[c] >= 0 =>
         (callPc'[c] = "done" <=> lastEventAge[c] >= ActivityWindowMs)]_vars

\* A wait that resolved on a gap after which a further event arrived.
C21_Witness ==
  \E c \in Calls :
    callResult[c] = "summary" /\ settleGap[c] >= ActivityWindowMs /\ lastEventAge[c] = 0

(***************************************************************************)
(* open-url summary and the Record Store.                                  *)
(***************************************************************************)
\* A query-network-traffic or open-url call (call 1) and, after it has
\* returned, an open-url call (call 2), which creates its connection, reuses
\* the one of call 1 or replaces it.
ReuseNext ==
  \/ \E op \in {"query", "open"} : Invoke(1, op)
  \/ callPc[1] = "done" /\ Invoke(2, "open")
  \/ \E r \in ProbeResults : QueryProbeDone(1, r)
  \/ \E t \in ProbeResults : QueryListDone(1, t)
  \/ \E ok \in BOOLEAN : QueryConnectDone(1, ok)
  \/ \E ok \in BOOLEAN : QueryNetEnableDone(1, ok)
  \/ \E c \in {1, 2}, r \in ProbeResults : OpenProbeDone(c, r)
  \/ \E c \in {1, 2}, t \in ProbeResults : OpenListDone(c, t)
  \/ OpenCloseDone(2)
  \/ \E c \in {1, 2}, ok \in BOOLEAN : OpenConnectDone(c, ok)
  \/ \E c \in {1, 2}, ok \in BOOLEAN : OpenPageEnableDone(c, ok)
  \/ \E c \in {1, 2}, ok \in BOOLEAN : OpenNetEnableDone(c, ok)
  \/ \E c \in {1, 2}, ok \in BOOLEAN : OpenNavigateDone(c, ok)
  \/ \E c \in {1, 2}, u \in BOOLEAN : PollCheck(c, u)
  \/ \E k \in {1, 2}, id \in RequestIds :
       nEvents < MaxEvents /\ RequestWillBeSent(k, id, 1)
  \/ \E k \in {1, 2}, id \in RequestIds :
       nEvents < MaxEvents /\ ResponseReceived(k, id, 1)
  \/ \E k \in {1, 2} : SocketClose(k)
  \/ Tick(Horizon)

SpecReuse == Init /\ [][ReuseNext]_vars

\* C22: every requestId in the page-load record set of an open-url call is a
\* key of the store, from the registration of the call's temporary
\* subscribers on, and so when its summary is produced; over every sequence
\* of query-network-traffic and open-url calls.
C22_PageLoadIdsAreStoreKeys ==
  \A c \in Calls, id \in RequestIds :
    pageLoadRequests[c][id].present => networkRequests[id].present

\* An open-url call that reused the connection an earlier call had created
\* and returned a summary of a page load with a recorded request.
C22_Witness ==
  \E c \in Calls, id \in RequestIds :
    /\ callResult[c] = "summary"
    /\ cmdConn[c] # c
    /\ pageLoadRequests[c][id].present
====
